---- MODULE Spec2Model ----
(***************************************************************************)
(* Model of the Tiled map decoder of grapefruit:                           *)
(*   src/src/map/tiled/TiledTileset.js  (gf.TiledTileset)                  *)
(*   src/src/map/tiled/TiledMap.js      (gf.TiledMap)                      *)
(*                                                                         *)
(* A tile id (gid) is an unsigned 32-bit number.  The bitwise operators of *)
(* the source work on its 32-bit pattern, so a gid is kept here as the two *)
(* 16-bit halves of that pattern, [hi, lo], and `&`, `|`, `~` are computed *)
(* bit by bit on the halves.                                               *)
(***************************************************************************)
EXTENDS Integers, Sequences, FiniteSets, TLC

VARIABLES
    assetCache,   \* gf.assetCache: preloaded atlas images, name -> source size
    input,        \* the argument the constructor was called with
    status,       \* "none" before construction, "built", or "threw"
    err,          \* what the constructor threw
    tilesets,     \* TiledMap.tilesets (the one tileset under SpecTileset/SpecProps)
    children,     \* TiledMap.children
    ret,          \* the last query: its arguments and what it returned
    held,         \* a reference a caller kept to a record getTileProperties returned
    nq            \* number of getTileProperties queries made

vars == <<assetCache, input, status, err, tilesets, children, ret, held, nq>>

-----------------------------------------------------------------------------
(* Bounds *)

MaxQueries == 3
MaxTilesets == 2
MaxLayers == 2

-----------------------------------------------------------------------------
(* JavaScript values *)

Undefined == [kind |-> "undefined"]
Null == [kind |-> "null"]

TwoPow16 == 2 ^ 16

RECURSIVE AndBits(_, _, _)
AndBits(a, b, n) ==
    IF n = 0 \/ a = 0 \/ b = 0 THEN 0
    ELSE ((a % 2) * (b % 2)) + 2 * AndBits(a \div 2, b \div 2, n - 1)

RECURSIVE OrBits(_, _, _)
OrBits(a, b, n) ==
    IF n = 0 THEN 0
    ELSE (IF (a % 2) + (b % 2) > 0 THEN 1 ELSE 0)
         + 2 * OrBits(a \div 2, b \div 2, n - 1)

\* a & b, a | b, ~a on 32-bit patterns
BitAnd(a, b) == [hi |-> AndBits(a.hi, b.hi, 16), lo |-> AndBits(a.lo, b.lo, 16)]
BitOr(a, b) == [hi |-> OrBits(a.hi, b.hi, 16), lo |-> OrBits(a.lo, b.lo, 16)]
BitNot(a) == [hi |-> (TwoPow16 - 1) - a.hi, lo |-> (TwoPow16 - 1) - a.lo]

\* the Number a 32-bit pattern stands for after a bitwise operator (ToInt32)
Int32(w) ==
    IF w.hi >= 32768 THEN ((w.hi - TwoPow16) * TwoPow16) + w.lo
    ELSE (w.hi * TwoPow16) + w.lo

\* ~~(a / b): the quotient truncated toward zero; a / 0 is +-Infinity or NaN,
\* which ~~ turns into 0
Abs(a) == IF a < 0 THEN 0 - a ELSE a
TruncDiv(a, b) ==
    IF b = 0 THEN 0
    ELSE IF (a < 0) = (b < 0) THEN Abs(a) \div Abs(b)
    ELSE 0 - (Abs(a) \div Abs(b))

\* v || 0
OrZero(v) == IF v = 0 THEN 0 ELSE v

-----------------------------------------------------------------------------
(* gf.TiledTileset.FLAGS *)

FlippedX == [hi |-> 32768, lo |-> 0]     \* 0x80000000
FlippedY == [hi |-> 16384, lo |-> 0]     \* 0x40000000
RotatedCW == [hi |-> 8192, lo |-> 0]     \* 0x20000000

\* ~(flags.FlippedX | flags.FlippedY | flags.RotatedCW)
FlagMask == BitNot(BitOr(BitOr(FlippedX, FlippedY), RotatedCW))

\* tileId &= ~(flags.FlippedX | flags.FlippedY | flags.RotatedCW)
RemoveFlagsNoRotate(tileId) == BitAnd(tileId, BitNot(BitOr(FlippedX, FlippedY)))
RemoveFlags(tileId) == BitAnd(tileId, FlagMask)

-----------------------------------------------------------------------------
(* gf.TiledTileset constructor *)

NumTiles(width, height, tileSize, spacing, margin) ==
    [x |-> TruncDiv(width - margin, tileSize.x - spacing),
     y |-> TruncDiv(height - margin, tileSize.y - spacing)]

LastGidClamped(firstgid, numTiles) ==
    IF numTiles.x * numTiles.y = 0 THEN firstgid
    ELSE firstgid + ((numTiles.x * numTiles.y) - 1)
LastGid(firstgid, numTiles) ==
    firstgid + OrZero((numTiles.x * numTiles.y) - 1)

\* the PIXI.Rectangle of local tile t
TileRectNoSpacing(t, numTiles, tileSize, spacing, margin) ==
    LET y == TruncDiv(t, numTiles.x)
        x == t - (y * numTiles.x)
    IN  [x |-> (x * tileSize.x) + margin,
         y |-> (y * tileSize.y) + margin,
         width |-> tileSize.x, height |-> tileSize.y]
TileRect(t, numTiles, tileSize, spacing, margin) ==
    LET y == TruncDiv(t, numTiles.x)
        x == t - (y * numTiles.x)
    IN  [x |-> (x * tileSize.x) + (x * spacing) + margin,
         y |-> (y * tileSize.y) + (y * spacing) + margin,
         width |-> tileSize.x, height |-> tileSize.y]

\* for(t = 0, tl = lastgid - firstgid + 1; t < tl; ++t) textures.push(...)
Textures(firstgid, lastgid, numTiles, tileSize, spacing, margin) ==
    LET tl == (lastgid - firstgid) + 1
    IN  IF tl <= 0 THEN << >>
        ELSE [i \in 1..tl |-> TileRect(i - 1, numTiles, tileSize, spacing, margin)]

\* new gf.TiledTileset(settings) with the asset cache `cache`: the exception,
\* or the constructed object.  settings.tileproperties holds the authored
\* records as gf.utils.parseTiledProperties leaves them.
TiledTileset(settings, cache) ==
    IF settings.name \notin DOMAIN cache
    THEN [threw |-> TRUE, error |-> "preload"]
    ELSE
      LET source == cache[settings.name]
          tileSize == [x |-> settings.tilewidth, y |-> settings.tileheight]
          spacing == OrZero(settings.spacing)
          margin == OrZero(settings.margin)
          numTiles == NumTiles(source.width, source.height, tileSize, spacing, margin)
          lastgid == LastGid(settings.firstgid, numTiles)
      IN  [threw |-> FALSE,
           this |->
             [baseTexture |-> source,
              firstgid |-> settings.firstgid,
              name |-> settings.name,
              tileSize |-> tileSize,
              spacing |-> spacing,
              margin |-> margin,
              numTiles |-> numTiles,
              lastgid |-> lastgid,
              tileproperties |-> settings.tileproperties,
              size |-> [x |-> settings.imagewidth, y |-> settings.imageheight],
              textures |-> Textures(settings.firstgid, lastgid, numTiles,
                                    tileSize, spacing, margin)]]

-----------------------------------------------------------------------------
(* gf.TiledTileset methods.  Each yields [result, this]: the returned value *)
(* and the tileset object after the call.                                   *)

TileTypeNone == "NONE"     \* gf.Tile.TYPE.NONE

DefaultProps == [collidable |-> FALSE, breakable |-> FALSE, type |-> TileTypeNone]

\* props.flippedX = ...; props.flippedY = ...; props.rotatedCW = ...
SetFlags(props, flippedX, flippedY, rotatedCW) ==
    [collidable |-> props.collidable, breakable |-> props.breakable,
     type |-> props.type,
     flippedX |-> flippedX, flippedY |-> flippedY, rotatedCW |-> rotatedCW]

\* a[k] = v on an object used as a sparse array
Put(a, k, v) == [i \in (DOMAIN a) \cup {k} |-> IF i = k THEN v ELSE a[i]]

getTilePropertiesKeepFlags(this, tileId) ==
    IF tileId = Undefined THEN [result |-> Null, this |-> this, local |-> Null]
    ELSE
      LET flippedX == BitAnd(tileId, FlippedX)
          flippedY == BitAnd(tileId, FlippedY)
          rotatedCW == BitAnd(tileId, RotatedCW)
          id == Int32(RemoveFlags(tileId)) - this.firstgid
      IN  IF id < 0 THEN [result |-> Null, this |-> this, local |-> id]
          ELSE IF id \in DOMAIN this.tileproperties
                  /\ "flippedX" \in DOMAIN this.tileproperties[id]
          THEN [result |-> this.tileproperties[id], this |-> this, local |-> id]
          ELSE
            LET props == SetFlags(IF id \in DOMAIN this.tileproperties
                                  THEN this.tileproperties[id] ELSE DefaultProps,
                                  flippedX, flippedY, rotatedCW)
            IN  [result |-> props,
                 this |-> [this EXCEPT !.tileproperties = Put(@, id, props)],
                 local |-> id]

\* `local` is the local variable tileId when the method returns.  The record
\* returned is the object stored at tileproperties[local].
getTileProperties(this, tileId) ==
    IF tileId = Undefined THEN [result |-> Null, this |-> this, local |-> Null]
    ELSE
      LET flippedX == BitAnd(tileId, FlippedX)
          flippedY == BitAnd(tileId, FlippedY)
          rotatedCW == BitAnd(tileId, RotatedCW)
          id == Int32(RemoveFlags(tileId)) - this.firstgid
      IN  IF id < 0 THEN [result |-> Null, this |-> this, local |-> id]
          ELSE
            LET props == SetFlags(IF id \in DOMAIN this.tileproperties
                                  THEN this.tileproperties[id] ELSE DefaultProps,
                                  flippedX, flippedY, rotatedCW)
            IN  [result |-> props,
                 this |-> [this EXCEPT !.tileproperties = Put(@, id, props)],
                 local |-> id]

getTileTexture(this, tileId) ==
    IF tileId = Undefined THEN [result |-> Null, local |-> Null]
    ELSE
      LET id == Int32(RemoveFlags(tileId)) - this.firstgid
      IN  IF id < 0 THEN [result |-> Null, local |-> id]
          ELSE IF id + 1 \in DOMAIN this.textures
          THEN [result |-> this.textures[id + 1], local |-> id]   \* textures[id]
          ELSE [result |-> Undefined, local |-> id]

containsExclusive(this, tileId) ==
    IF tileId = Undefined THEN FALSE
    ELSE LET id == Int32(RemoveFlags(tileId))
         IN  id >= this.firstgid /\ id < this.lastgid
contains(this, tileId) ==
    IF tileId = Undefined THEN FALSE
    ELSE LET id == Int32(RemoveFlags(tileId))
         IN  id >= this.firstgid /\ id <= this.lastgid

-----------------------------------------------------------------------------
(* gf.TiledMap *)

LayerTypes == {"tilelayer", "objectgroup", "imagelayer"}

\* the node `new gf.TiledLayer / gf.TiledObjectGroup / gf.ImageLayer` makes of
\* layer descriptor i
Node(layers, i) == [type |-> layers[i].type, layer |-> i]

\* The layer loop of the constructor.  `var lyr` is function-scoped and the
\* switch has no default case, so on an unrecognized type lyr keeps the value
\* of the previous iteration (undefined on the first) and addChild(lyr) is
\* still called.  addChild is inherited from the display-object container,
\* outside these sources: given undefined it either throws (lib.undef =
\* "throw") or appends it ("push"); given a node that is already a child it
\* either moves it to the end ("move") or appends it again ("push").
RECURSIVE LayerLoop(_, _, _, _, _)
LayerLoop(layers, i, lyr, kids, lib) ==
    IF i > Len(layers) THEN [threw |-> FALSE, children |-> kids]
    ELSE
      LET now == IF layers[i].type \in LayerTypes THEN Node(layers, i) ELSE lyr
          without == SelectSeq(kids, LAMBDA k : k # now)
      IN  IF now = Undefined /\ lib.undef = "throw"
          THEN [threw |-> TRUE, error |-> "TypeError"]
          ELSE IF now # Undefined /\ lib.again = "move"
          THEN LayerLoop(layers, i + 1, now, Append(without, now), lib)
          ELSE LayerLoop(layers, i + 1, now, Append(kids, now), lib)

\* for(t = 0; t < map.tilesets.length; ++t) tilesets.push(new gf.TiledTileset(...))
RECURSIVE TilesetLoop(_, _, _, _)
TilesetLoop(descs, t, built, cache) ==
    IF t > Len(descs) THEN [threw |-> FALSE, tilesets |-> built]
    ELSE LET r == TiledTileset(descs[t], cache)
         IN  IF r.threw THEN r
             ELSE TilesetLoop(descs, t + 1, Append(built, r.this), cache)

RECURSIVE TilesetLoopSkipMissing(_, _, _, _)
TilesetLoopSkipMissing(descs, t, built, cache) ==
    IF t > Len(descs) THEN [threw |-> FALSE, tilesets |-> built]
    ELSE LET r == TiledTileset(descs[t], cache)
         IN  IF r.threw THEN TilesetLoopSkipMissing(descs, t + 1, built, cache)
             ELSE TilesetLoopSkipMissing(descs, t + 1, Append(built, r.this), cache)

\* new gf.TiledMap(map): the exception, or the constructed map's tilesets and
\* children
TiledMapLenient(map, cache, lib) ==
    LET ts == TilesetLoopSkipMissing(map.tilesets, 1, << >>, cache)
        ls == LayerLoop(map.layers, 1, Undefined, << >>, lib)
    IN  IF ls.threw THEN ls
        ELSE [threw |-> FALSE, tilesets |-> ts.tilesets, children |-> ls.children]
TiledMap(map, cache, lib) ==
    LET ts == TilesetLoop(map.tilesets, 1, << >>, cache)
    IN  IF ts.threw THEN ts
        ELSE LET ls == LayerLoop(map.layers, 1, Undefined, << >>, lib)
             IN  IF ls.threw THEN ls
                 ELSE [threw |-> FALSE, tilesets |-> ts.tilesets,
                       children |-> ls.children]

\* getTileset: the index of the first tileset that contains tileId, 0 when the
\* loop ends without returning (the method then returns undefined)
RECURSIVE getTilesetFrom(_, _, _)
getTilesetFrom(sets, tileId, i) ==
    IF i > Len(sets) THEN 0
    ELSE IF contains(sets[i], tileId) THEN i
    ELSE getTilesetFrom(sets, tileId, i + 1)

getTileset(sets, tileId) == getTilesetFrom(sets, tileId, 1)

-----------------------------------------------------------------------------
(* Inputs *)

Flags == {"FlippedX", "FlippedY", "RotatedCW"}

\* the gid with raw id r (below 2^29) and the flag bits f set
WithFlags(r, f) ==
    [hi |-> (r \div TwoPow16)
            + (IF "FlippedX" \in f THEN 2 ^ 15 ELSE 0)
            + (IF "FlippedY" \in f THEN 2 ^ 14 ELSE 0)
            + (IF "RotatedCW" \in f THEN 2 ^ 13 ELSE 0),
     lo |-> r % TwoPow16]

MaxRawId == (2 ^ 29) - 1

\* one tileset on its own: atlas sizes, tile sizes, margins and spacings
AtlasSizes == [width : {4, 9}, height : {2, 5}]
NoTileProperties == << >>
AuthoredTile == [collidable |-> TRUE, breakable |-> FALSE, type |-> "COLLIDER"]

TilesetSettings ==
    [name : {"A"}, firstgid : {1, 3}, tilewidth : {2, 3}, tileheight : {2},
     spacing : {0, 1}, margin : {0, 1}, imagewidth : {4, 9},
     imageheight : {2, 5}, tileproperties : {NoTileProperties}]
TilesetCaches ==
    {<< >>} \cup {[n \in {"A"} |-> s] : s \in AtlasSizes}
TilesetRawIds == (0..6) \cup {MaxRawId}

\* one tileset of two tiles, with and without an authored tile
PropsSettings ==
    [name : {"A"}, firstgid : {2}, tilewidth : {2}, tileheight : {2},
     spacing : {0}, margin : {0}, imagewidth : {4}, imageheight : {2},
     tileproperties : {NoTileProperties, [i \in {0} |-> AuthoredTile]}]
PropsCaches == {[n \in {"A"} |-> [width |-> 4, height |-> 2]]}
PropsRawIds == {1, 2, 3, MaxRawId}

\* maps: atlas A holds 2 x 2 tiles, atlas B 2 x 1
MapAtlases ==
    [n \in {"A", "B"} |->
        IF n = "A" THEN [width |-> 4, height |-> 4] ELSE [width |-> 4, height |-> 2]]
MapCaches == {[n \in S |-> MapAtlases[n]] : S \in SUBSET {"A", "B"}}
MapTilesetSettings ==
    {[name |-> n, firstgid |-> g, tilewidth |-> 2, tileheight |-> 2,
      spacing |-> 0, margin |-> 0, imagewidth |-> MapAtlases[n].width,
      imageheight |-> MapAtlases[n].height, tileproperties |-> NoTileProperties]
     : n \in {"A", "B"}, g \in {1, 5}}
MapLayers == [type : LayerTypes \cup {"unknown"}]
MapRawIds == {0, 1, 4, 5, 6, 7}
SeqsUpTo(S, n) == UNION {[1..k -> S] : k \in 0..n}
MapDescriptions ==
    [tilesets : SeqsUpTo(MapTilesetSettings, MaxTilesets),
     layers : SeqsUpTo(MapLayers, MaxLayers)]
ContainerBehaviours == [undef : {"throw", "push"}, again : {"move", "push"}]

-----------------------------------------------------------------------------
(* Actions *)

NoQuery == [op |-> "none"]

InitWith(caches) ==
    /\ assetCache \in caches
    /\ input = Undefined
    /\ status = "none"
    /\ err = "none"
    /\ tilesets = << >>
    /\ children = << >>
    /\ ret = NoQuery
    /\ held = Null
    /\ nq = 0

\* new gf.TiledTileset(settings)
NewTileset(settings) ==
    /\ status = "none"
    /\ settings.name \in DOMAIN assetCache =>
          /\ settings.imagewidth = assetCache[settings.name].width
          /\ settings.imageheight = assetCache[settings.name].height
    /\ \E r \in {TiledTileset(settings, assetCache)} :
           /\ input' = settings
           /\ status' = IF r.threw THEN "threw" ELSE "built"
           /\ err' = IF r.threw THEN r.error ELSE "none"
           /\ tilesets' = IF r.threw THEN << >> ELSE <<r.this>>
    /\ UNCHANGED <<assetCache, children, ret, held, nq>>

\* tileset.contains(gid)
Contains(given, r, f) ==
    /\ status = "built"
    /\ ret = NoQuery
    /\ LET gid == IF given THEN WithFlags(r, f) ELSE Undefined
       IN  ret' = [op |-> "contains", given |-> given, r |-> r, f |-> f, gid |-> gid,
                   result |-> contains(tilesets[1], gid)]
    /\ UNCHANGED <<assetCache, input, status, err, tilesets, children, held, nq>>

\* tileset.getTileTexture(gid)
GetTileTexture(given, r, f) ==
    /\ status = "built"
    /\ ret = NoQuery
    /\ \E gid \in {IF given THEN WithFlags(r, f) ELSE Undefined} :
       \E q \in {getTileTexture(tilesets[1], gid)} :
           ret' = [op |-> "getTileTexture", given |-> given, r |-> r, f |-> f, gid |-> gid,
                   local |-> q.local, result |-> q.result]
    /\ UNCHANGED <<assetCache, input, status, err, tilesets, children, held, nq>>

\* tileset.getTileProperties(gid).  The caller of the first query that
\* returns a record keeps the reference: the local index of the object and
\* the flip/rotate values it read from it at that moment.
GetTileProperties(given, r, f) ==
    /\ status = "built"
    /\ nq < MaxQueries
    /\ \E gid \in {IF given THEN WithFlags(r, f) ELSE Undefined} :
       \E q \in {getTileProperties(tilesets[1], gid)} :
           /\ ret' = [op |-> "getTileProperties", given |-> given, r |-> r, f |-> f, gid |-> gid,
                      local |-> q.local, result |-> q.result]
           /\ tilesets' = <<q.this>>
           /\ held' = IF held = Null /\ q.result # Null
                      THEN [local |-> q.local, flippedX |-> q.result.flippedX,
                            flippedY |-> q.result.flippedY,
                            rotatedCW |-> q.result.rotatedCW]
                      ELSE held
    /\ nq' = nq + 1
    /\ UNCHANGED <<assetCache, input, status, err, children>>

\* new gf.TiledMap(map)
NewTiledMap(map, lib) ==
    /\ status = "none"
    /\ \E r \in {TiledMap(map, assetCache, lib)} :
           /\ input' = map
           /\ status' = IF r.threw THEN "threw" ELSE "built"
           /\ err' = IF r.threw THEN r.error ELSE "none"
           /\ tilesets' = IF r.threw THEN << >> ELSE r.tilesets
           /\ children' = IF r.threw THEN << >> ELSE r.children
    /\ UNCHANGED <<assetCache, ret, held, nq>>

\* map.getTileset(gid)
GetTileset(given, r, f) ==
    /\ status = "built"
    /\ ret = NoQuery
    /\ LET gid == IF given THEN WithFlags(r, f) ELSE Undefined
       IN  ret' = [op |-> "getTileset", given |-> given, r |-> r, f |-> f, gid |-> gid,
                   result |-> getTileset(tilesets, gid)]
    /\ UNCHANGED <<assetCache, input, status, err, tilesets, children, held, nq>>

\* the arguments of a query: no gid at all (undefined), or the gid of raw id r
\* with the flag bits f
Args(rawIds) ==
    {<<FALSE, 0, {}>>} \cup {<<TRUE, r, f>> : r \in rawIds, f \in SUBSET Flags}

\* The lookups contains, getTileTexture and getTileset change nothing of the
\* tileset or the map, so the specifications follow one of them per
\* constructed object; getTileProperties writes tileproperties, and runs of
\* up to MaxQueries of them are followed.

\* a map and the lookups on it
Init == InitWith(MapCaches)
BuildMap ==
    /\ status = "none"
    /\ \E map \in MapDescriptions, lib \in ContainerBehaviours : NewTiledMap(map, lib)
LookupTileset ==
    /\ status = "built" /\ ret = NoQuery
    /\ \E a \in Args(MapRawIds) : GetTileset(a[1], a[2], a[3])
Next == BuildMap \/ LookupTileset
Spec == Init /\ [][Next]_vars

\* one tileset: its grid, its textures and its range
InitTileset == InitWith(TilesetCaches)
BuildTileset ==
    /\ status = "none"
    /\ \E settings \in TilesetSettings : NewTileset(settings)
LookupContains ==
    /\ status = "built" /\ ret = NoQuery
    /\ \E a \in Args(TilesetRawIds) : Contains(a[1], a[2], a[3])
LookupTexture ==
    /\ status = "built" /\ ret = NoQuery
    /\ \E a \in Args(TilesetRawIds) : GetTileTexture(a[1], a[2], a[3])
NextTileset == BuildTileset \/ LookupContains \/ LookupTexture
SpecTileset == InitTileset /\ [][NextTileset]_vars

\* one tileset: its tile properties
InitProps == InitWith(PropsCaches)
BuildPropsTileset ==
    /\ status = "none"
    /\ \E settings \in PropsSettings : NewTileset(settings)
LookupProperties ==
    /\ status = "built" /\ nq < MaxQueries
    /\ \E a \in Args(PropsRawIds) : GetTileProperties(a[1], a[2], a[3])
LookupPropsContains ==
    /\ status = "built" /\ ret = NoQuery
    /\ \E a \in Args(PropsRawIds) : Contains(a[1], a[2], a[3])
LookupPropsTexture ==
    /\ status = "built" /\ ret = NoQuery
    /\ \E a \in Args(PropsRawIds) : GetTileTexture(a[1], a[2], a[3])
NextProps ==
    BuildPropsTileset \/ LookupProperties \/ LookupPropsContains \/ LookupPropsTexture
SpecProps == InitProps /\ [][NextProps]_vars

-----------------------------------------------------------------------------
(* Properties *)

Zero == [hi |-> 0, lo |-> 0]

\* the value of a flag field for a gid whose flag bits are f
FlagField(flag, word, f) == IF flag \in f THEN word ELSE Zero

Owns(this, r) == this.firstgid <= r /\ r <= this.lastgid

Owners(sets, r) == {i \in 1..Len(sets) : Owns(sets[i], r)}

NonOverlapping(sets) ==
    \A i, j \in 1..Len(sets) :
        i # j => (sets[i].lastgid < sets[j].firstgid \/ sets[j].lastgid < sets[i].firstgid)

Product(this) == this.numTiles.x * this.numTiles.y

\* the nodes of the recognized descriptors, one each, in input order
RECURSIVE RecognizedNodes(_, _)
RecognizedNodes(layers, i) ==
    IF i > Len(layers) THEN << >>
    ELSE IF layers[i].type \in LayerTypes
    THEN <<Node(layers, i)>> \o RecognizedNodes(layers, i + 1)
    ELSE RecognizedNodes(layers, i + 1)

\* C1: on a map whose tilesets' ranges are pairwise non-overlapping,
\* getTileset(g) returns the one tileset whose range holds the raw id of g,
\* whatever flag bits g carries, and none when no range holds it.
C1_GetTilesetOwner ==
    (status = "built" /\ ret.op = "getTileset" /\ ret.given
       /\ NonOverlapping(tilesets))
    => IF Owners(tilesets, ret.r) = {} THEN ret.result = 0
       ELSE Owners(tilesets, ret.r) = {ret.result}

\* a flagged gid of the second of two tilesets was looked up
C1_Witness ==
    /\ status = "built" /\ ret.op = "getTileset" /\ ret.given
    /\ Len(tilesets) = 2 /\ NonOverlapping(tilesets)
    /\ ret.f = Flags /\ ret.result = 2 /\ ret.r = tilesets[2].lastgid

\* C2: an unrecognized layer type yields no node and no error: once the
\* tilesets are built, construction succeeds and the children are exactly the
\* nodes of the recognized descriptors, one each, in input order.
C2_UnknownLayerSkipped ==
    (status # "none" /\ err # "preload")
    => (status = "built" /\ children = RecognizedNodes(input.layers, 1))

\* C3 as claimed: lastgid = firstgid + product - 1 for a product of at least 1,
\* and lastgid = firstgid with no textures for a product of 0.
C3_LastGidClampedAtZero ==
    status = "built" =>
        LET this == tilesets[1]
        IN  /\ Product(this) >= 1 => this.lastgid = (this.firstgid + Product(this)) - 1
            /\ Product(this) = 0 => (this.lastgid = this.firstgid /\ this.textures = << >>)

\* C3 amended: lastgid = firstgid + product - 1 for every product; a product
\* of 0 gives lastgid = firstgid - 1, an empty range, and no textures.
C3_LastGid ==
    status = "built" =>
        LET this == tilesets[1]
        IN  /\ this.lastgid = (this.firstgid + Product(this)) - 1
            /\ Product(this) = 0 =>
                  (this.lastgid = this.firstgid - 1 /\ this.textures = << >>)

\* a tileset of zero tiles was built
C3_Witness == status = "built" /\ Product(tilesets[1]) = 0

\* C4: getTileProperties returns none for an undefined gid and for every gid
\* whose raw id is below firstgid or above lastgid.
C4_UnownedGivesNone ==
    (status = "built" /\ ret.op = "getTileProperties"
       /\ (~ret.given \/ ~Owns(tilesets[1], ret.r)))
    => ret.result = Null

\* C5: a query of an owned gid whose local index has no authored properties
\* returns collidable = false, breakable = false, type = NONE and the
\* flip/rotate fields of the queried gid, on the first query and on every
\* later one, whatever was queried in between.
C5_DefaultProperties ==
    (status = "built" /\ ret.op = "getTileProperties" /\ ret.given
       /\ Owns(tilesets[1], ret.r)
       /\ (ret.r - tilesets[1].firstgid) \notin DOMAIN input.tileproperties)
    => ret.result =
         [collidable |-> FALSE, breakable |-> FALSE, type |-> "NONE",
          flippedX |-> FlagField("FlippedX", FlippedX, ret.f),
          flippedY |-> FlagField("FlippedY", FlippedY, ret.f),
          rotatedCW |-> FlagField("RotatedCW", RotatedCW, ret.f)]

\* an unauthored index queried before is queried again, as the third query,
\* with other flag bits
C5_Witness ==
    /\ status = "built" /\ ret.op = "getTileProperties" /\ ret.given
    /\ Owns(tilesets[1], ret.r)
    /\ (ret.r - tilesets[1].firstgid) \notin DOMAIN input.tileproperties
    /\ nq = 3 /\ held # Null /\ held.local = ret.local
    /\ held.flippedX # ret.result.flippedX
    /\ held.rotatedCW # ret.result.rotatedCW

\* no cache entry holds flip/rotate values of a query
CacheHoldsNoFlags ==
    \A i \in DOMAIN tilesets[1].tileproperties :
        "flippedX" \notin DOMAIN tilesets[1].tileproperties[i]

\* the record a caller got from an earlier query still has the flip/rotate
\* values it was returned with
EarlierRecordUnchanged ==
    held # Null =>
        LET record == tilesets[1].tileproperties[held.local]
        IN  /\ record.flippedX = held.flippedX
            /\ record.flippedY = held.flippedY
            /\ record.rotatedCW = held.rotatedCW

\* C6: the flip/rotate values of a query are not persisted in the cached
\* record, so a record returned by an earlier query keeps its flip/rotate
\* values when the same local index is queried again with other flag bits.
C6_FlagsNotPersisted ==
    status = "built" => (CacheHoldsNoFlags /\ EarlierRecordUnchanged)

\* C7: when the atlas of any tileset of the description is not in the asset
\* cache, construction of the map throws the preload error and leaves no
\* tileset and no map.
C7_MissingAsset ==
    (status # "none"
       /\ \E t \in 1..Len(input.tilesets) : input.tilesets[t].name \notin DOMAIN assetCache)
    => (status = "threw" /\ err = "preload" /\ tilesets = << >> /\ children = << >>)

\* the second tileset of a map with layers lacks its atlas, the first has it
C7_Witness ==
    /\ status = "threw" /\ err = "preload"
    /\ Len(input.tilesets) = 2 /\ Len(input.layers) > 0
    /\ input.tilesets[1].name \in DOMAIN assetCache
    /\ input.tilesets[2].name \notin DOMAIN assetCache

\* C8: for the gid of raw id r with flag bits f, the three methods work on r
\* after removing the flags (contains compares r with the range, getTileTexture
\* and getTileProperties index by r - firstgid), and each flip/rotate value
\* decoded by getTileProperties is set exactly when its bit is in f.
C8_FlagRoundTrip ==
    (status = "built" /\ ret.op # "none" /\ ret.given) =>
        LET this == tilesets[1]
        IN  /\ ret.op = "contains" => (ret.result = Owns(this, ret.r))
            /\ ret.op = "getTileTexture" => ret.local = ret.r - this.firstgid
            /\ ret.op = "getTileProperties" =>
                  /\ ret.local = ret.r - this.firstgid
                  /\ ret.result # Null =>
                        /\ (ret.result.flippedX # Zero) = ("FlippedX" \in ret.f)
                        /\ (ret.result.flippedY # Zero) = ("FlippedY" \in ret.f)
                        /\ (ret.result.rotatedCW # Zero) = ("RotatedCW" \in ret.f)

\* the largest raw id was queried with all three flag bits set
C8_Witness ==
    /\ status = "built" /\ ret.op = "getTileProperties" /\ ret.given
    /\ ret.r = MaxRawId /\ ret.f = Flags /\ ret.result # Null

\* C9: numTiles is floor((atlas - margin) / (tile - spacing)) on each axis,
\* there is one texture per local index 0 .. lastgid - firstgid, the texture
\* of index t has origin (margin + (t mod numTiles.x) * (tileWidth + spacing),
\* margin + floor(t / numTiles.x) * (tileHeight + spacing)) and the tile's
\* size, and getTileTexture of an owned gid returns the texture of index
\* rawId - firstgid.
C9_Textures ==
    status = "built" =>
        LET this == tilesets[1]
            nx == this.numTiles.x
            last == this.lastgid - this.firstgid
        IN  /\ nx = (this.baseTexture.width - this.margin)
                        \div (this.tileSize.x - this.spacing)
            /\ this.numTiles.y = (this.baseTexture.height - this.margin)
                        \div (this.tileSize.y - this.spacing)
            /\ Len(this.textures) = (IF last < 0 THEN 0 ELSE last + 1)
            /\ \A t \in 0..last :
                  this.textures[t + 1] =
                     [x |-> this.margin + ((t % nx) * (this.tileSize.x + this.spacing)),
                      y |-> this.margin + ((t \div nx) * (this.tileSize.y + this.spacing)),
                      width |-> this.tileSize.x, height |-> this.tileSize.y]
            /\ (ret.op = "getTileTexture" /\ ret.given /\ Owns(this, ret.r))
                  => ret.result = this.textures[(ret.r - this.firstgid) + 1]

\* a flagged gid of the second row of a grid with margin and spacing was
\* looked up
C9_Witness ==
    /\ status = "built" /\ ret.op = "getTileTexture" /\ ret.given
    /\ tilesets[1].numTiles.x >= 2 /\ tilesets[1].numTiles.y >= 2
    /\ tilesets[1].spacing = 1 /\ tilesets[1].margin = 1
    /\ Owns(tilesets[1], ret.r)
    /\ ret.r - tilesets[1].firstgid >= tilesets[1].numTiles.x
    /\ ret.f # {}

\* C10: every texture rectangle lies inside the atlas image.
C10_TexturesInsideAtlas ==
    status = "built" =>
        LET this == tilesets[1]
        IN  \A i \in DOMAIN this.textures :
               /\ this.textures[i].x + this.textures[i].width <= this.baseTexture.width
               /\ this.textures[i].y + this.textures[i].height <= this.baseTexture.height

====
